---------------------------- MODULE Spec2Model ----------------------------
(***************************************************************************)
(* HSV -> RGB conversion of src/hsv2rgb.cpp (build: YELLOWLEVEL 1,         *)
(* GREEN2 0).  Every uint8_t of the source is an integer in 0..255; an     *)
(* expression is evaluated in int, as C's integer promotion does, and      *)
(* narrowed with U8 where the source stores it into a uint8_t.  The value  *)
(* before the narrowing is kept in the "wide" field of each result, so     *)
(* that a wrap is something the checks can see.                            *)
(***************************************************************************)
EXTENDS Integers, Sequences, FiniteSets

(***************************************************************************)
(* Bounds of the checked input space.                                      *)
(***************************************************************************)
\* saturation inputs: NumSat + 1 evenly spread bytes (plus the edges)
NumSat == 7
\* value inputs: every byte up to ValDense, and NumVal + 1 spread bytes
ValDense == 17
NumVal == 7
\* fill_rainbow's initialhue / deltahue inputs: NumFillHue + 1 spread bytes
NumFillHue == 7
\* length of the pixel array handed to the fill helpers
MaxLeds == 6

Byte == 0 .. 255

Spread(n) == {(k * 255) \div n : k \in 0 .. n}

HueInputs == Byte
SatInputs == Spread(NumSat) \cup {1, 254}
ValInputs == (0 .. ValDense) \cup Spread(NumVal) \cup {254}
FillHueInputs == Spread(NumFillHue) \cup {1, 64, 85}
ColorInputs == {<<10, 20, 30>>, <<0, 0, 0>>, <<255, 255, 255>>}
NumToFillInputs == -1 .. MaxLeds

\* storing an int into a uint8_t
U8(x) == x % 256

NoCall == [called |-> FALSE]

(***************************************************************************)
(* lib8tion (not part of the source file): scale8 and nscale8x3_video.     *)
(***************************************************************************)
scale8(i, scale) == (i * scale) \div 256

scale8_video(i, scale) ==
    IF i = 0 \/ scale = 0 THEN 0 ELSE ((i * scale) \div 256) + 1

nscale8x3_video(rgb, scale) ==
    [r |-> scale8_video(rgb.r, scale),
     g |-> scale8_video(rgb.g, scale),
     b |-> scale8_video(rgb.b, scale)]

(***************************************************************************)
(* The spectrum converter, portable form.                                  *)
(***************************************************************************)
APPLY_DIMMING(X) == X

HSV_SECTION_3 == 64

brightness_floor_div255(value, invsat) == (value * invsat) \div 255
\* line 42, before the store
brightness_floor_C(value, invsat) == (value * invsat) \div 256

rampdown_from_section_size(offset) == HSV_SECTION_3 - offset
\* line 55
rampdown_C(offset) == (HSV_SECTION_3 - 1) - offset

amp_adj_div32(ramp, color_amplitude) == (ramp * color_amplitude) \div (256 \div 8)
\* lines 87-88, before the store
amp_adj_C(ramp, color_amplitude) == (ramp * color_amplitude) \div (256 \div 4)

hsv2rgb_C(hsv) ==
    LET value == APPLY_DIMMING(hsv.val)
        saturation == hsv.sat
        invsat == APPLY_DIMMING(255 - saturation)
        w_floor == brightness_floor_C(value, invsat)
        brightness_floor == U8(w_floor)
        w_amp == value - brightness_floor
        color_amplitude == U8(w_amp)
        section == U8(hsv.hue \div HSV_SECTION_3)
        offset == U8(hsv.hue % HSV_SECTION_3)
        rampup == offset
        w_rampdown == rampdown_C(offset)
        rampdown == U8(w_rampdown)
        w_rampup_amp == amp_adj_C(rampup, color_amplitude)
        w_rampdown_amp == amp_adj_C(rampdown, color_amplitude)
        rampup_amp_adj == U8(w_rampup_amp)
        rampdown_amp_adj == U8(w_rampdown_amp)
        w_rampup_sum == rampup_amp_adj + brightness_floor
        w_rampdown_sum == rampdown_amp_adj + brightness_floor
        rampup_adj_with_floor == U8(w_rampup_sum)
        rampdown_adj_with_floor == U8(w_rampdown_sum)
        locals == [brightness_floor |-> brightness_floor,
                   color_amplitude |-> color_amplitude,
                   section |-> section,
                   offset |-> offset,
                   rampup_adj_with_floor |-> rampup_adj_with_floor,
                   rampdown_adj_with_floor |-> rampdown_adj_with_floor,
                   wide |-> [brightness_floor |-> w_floor,
                             color_amplitude |-> w_amp,
                             rampdown |-> w_rampdown,
                             rampup_amp_adj |-> w_rampup_amp,
                             rampdown_amp_adj |-> w_rampdown_amp,
                             rampup_adj_with_floor |-> w_rampup_sum,
                             rampdown_adj_with_floor |-> w_rampdown_sum]]
        rgb == IF section # 0
               THEN IF section = 1
                    THEN [r |-> brightness_floor,
                          g |-> rampdown_adj_with_floor,
                          b |-> rampup_adj_with_floor]
                    ELSE [r |-> rampup_adj_with_floor,
                          g |-> brightness_floor,
                          b |-> rampdown_adj_with_floor]
               ELSE [r |-> rampdown_adj_with_floor,
                     g |-> rampup_adj_with_floor,
                     b |-> brightness_floor]
    IN  [called |-> TRUE, rgb |-> rgb, locals |-> locals]

(***************************************************************************)
(* The spectrum converter, AVR form.  "mul a, b ; mov x, r1" leaves the    *)
(* high byte of the 16-bit product a * b in x; "com x" is 255 - x.         *)
(***************************************************************************)
mul_hi(a, b) == (a * b) \div 256

com(x) == 255 - x

BitAnd8(x, mask) ==
    LET RECURSIVE bits(_, _, _)
        bits(a, m, k) ==
            IF k = 8 THEN 0
            ELSE (IF a % 2 = 1 /\ m % 2 = 1 THEN 1 ELSE 0)
                 + 2 * bits(a \div 2, m \div 2, k + 1)
    IN  bits(x, mask, 0)

hsv2rgb_avr(hsv) ==
    LET hue == hsv.hue
        saturation == U8(255 - hsv.sat)
        invsat == APPLY_DIMMING(saturation)
        value == APPLY_DIMMING(hsv.val)
        brightness_floor == mul_hi(value, invsat)
        color_amplitude == U8(value - brightness_floor)
        offset == BitAnd8(hsv.hue, HSV_SECTION_3 - 1)
        rampup == U8(offset * 4)
        rampup_amp_adj == mul_hi(rampup, color_amplitude)
        rampup_com == com(rampup)
        rampdown_amp_adj == mul_hi(rampup_com, color_amplitude)
        rampup_adj_with_floor == U8(rampup_amp_adj + brightness_floor)
        rampdown_adj_with_floor == U8(rampdown_amp_adj + brightness_floor)
        locals == [brightness_floor |-> brightness_floor,
                   color_amplitude |-> color_amplitude,
                   offset |-> offset]
        rgb == IF BitAnd8(hue, 128) # 0
               THEN [r |-> rampup_adj_with_floor,
                     g |-> brightness_floor,
                     b |-> rampdown_adj_with_floor]
               ELSE IF BitAnd8(hue, 64) # 0
                    THEN [r |-> brightness_floor,
                          g |-> rampdown_adj_with_floor,
                          b |-> rampup_adj_with_floor]
                    ELSE [r |-> rampdown_adj_with_floor,
                          g |-> rampup_adj_with_floor,
                          b |-> brightness_floor]
    IN  [called |-> TRUE, rgb |-> rgb, locals |-> locals]

(***************************************************************************)
(* The rainbow converter.                                                  *)
(***************************************************************************)
rainbow_val_unsquared(val) == val
\* line 244
rainbow_val(val) == scale8(val, val)

rainbow_third_unscaled(offset8) == offset8
\* line 249
rainbow_third(offset8) == scale8(offset8, 256 \div 3)

\* lines 254-377: the per-section channel formulas, before the stores
rainbow_section(section, third) ==
    IF section < 4
    THEN IF section < 2
         THEN IF section = 0
              THEN [r |-> 255 - third, g |-> third, b |-> 0]
              ELSE [r |-> 171, g |-> 85 + third, b |-> 0]
         ELSE IF section = 2
              THEN [r |-> 171 - (third * 2), g |-> 171 + third, b |-> 0]
              ELSE [r |-> 0, g |-> 255 - third, b |-> third]
    ELSE IF section < 6
         THEN IF section = 4
              THEN [r |-> 0, g |-> 171 - (third * 2), b |-> 85 + (third * 2)]
              ELSE [r |-> third, g |-> 0, b |-> 255 - third]
         ELSE IF section = 6
              THEN [r |-> 85 + third, g |-> 0, b |-> 171 - third]
              ELSE [r |-> 171 + third, g |-> 0, b |-> 85 - third]

Narrow(rgb) == [r |-> U8(rgb.r), g |-> U8(rgb.g), b |-> U8(rgb.b)]

AddFloor(rgb, brightness_floor) ==
    [r |-> rgb.r + brightness_floor,
     g |-> rgb.g + brightness_floor,
     b |-> rgb.b + brightness_floor]

rainbow_finish_floor_last(rgb0, sat, val) ==
    LET scaled == nscale8x3_video(rgb0, sat)
        w_desat == 255 - sat
        desat == scale8(U8(w_desat), U8(w_desat))
        brightness_floor == U8(desat)
        valued == nscale8x3_video(scaled, val)
        w_sum == AddFloor(valued, brightness_floor)
    IN  [rgb |-> Narrow(w_sum),
         wide |-> [scaled |-> scaled, desat |-> w_desat,
                   brightness_floor |-> desat, sum |-> w_sum,
                   final |-> Narrow(w_sum)]]
\* lines 379-389: saturation scaling, desaturation floor, value scaling
rainbow_finish(rgb0, sat, val) ==
    LET scaled == nscale8x3_video(rgb0, sat)
        w_desat == 255 - sat
        desat == scale8(U8(w_desat), U8(w_desat))
        brightness_floor == U8(desat)
        w_sum == AddFloor(Narrow(scaled), brightness_floor)
        final == nscale8x3_video(Narrow(w_sum), val)
    IN  [rgb |-> Narrow(final),
         wide |-> [scaled |-> scaled, desat |-> w_desat,
                   brightness_floor |-> desat, sum |-> w_sum,
                   final |-> final]]

hsv2rgb_rainbow(hsv) ==
    LET hue == hsv.hue
        sat == hsv.sat
        w_val == rainbow_val(hsv.val)
        val == U8(w_val)
        offset == BitAnd8(hue, 31)
        section == U8(hue \div 32)
        w_offset8 == offset * 8
        w_third == rainbow_third(U8(w_offset8))
        third == U8(w_third)
        w_rgb0 == rainbow_section(section, third)
        fin == rainbow_finish(Narrow(w_rgb0), sat, val)
    IN  [called |-> TRUE,
         rgb |-> fin.rgb,
         locals |-> [val |-> val,
                     section |-> section,
                     third |-> third,
                     wide |-> [val |-> w_val,
                               offset8 |-> w_offset8,
                               third |-> w_third,
                               section_rgb |-> w_rgb0,
                               scaled |-> fin.wide.scaled,
                               desat |-> fin.wide.desat,
                               brightness_floor |-> fin.wide.brightness_floor,
                               sum |-> fin.wide.sum,
                               final |-> fin.wide.final]]]

(***************************************************************************)
(* The fill helpers.  A pixel array is a function on 0 .. MaxLeds - 1; a   *)
(* store to an index outside it is not modelled (the callers here pass     *)
(* numToFill <= MaxLeds).                                                  *)
(***************************************************************************)
Store(leds, i, rgb) == IF i \in DOMAIN leds THEN [leds EXCEPT ![i] = rgb] ELSE leds

RECURSIVE fill_solid_loop(_, _, _, _)
\* lines 413-415
fill_solid_loop(leds, i, numToFill, color) ==
    IF i < numToFill
    THEN fill_solid_loop(Store(leds, i, color), i + 1, numToFill, color)
    ELSE leds

fill_solid_inclusive(pFirstLED, numToFill, color) ==
    fill_solid_loop(pFirstLED, 0, numToFill + 1, color)
\* lines 410-416
fill_solid(pFirstLED, numToFill, color) ==
    fill_solid_loop(pFirstLED, 0, numToFill, color)

RECURSIVE fill_rainbow_loop(_, _, _, _, _)
\* lines 426-429
fill_rainbow_loop(leds, i, numToFill, hsv, deltahue) ==
    IF i < numToFill
    THEN fill_rainbow_loop(Store(leds, i, hsv2rgb_rainbow(hsv).rgb), i + 1, numToFill,
                           [hsv EXCEPT !.hue = U8(hsv.hue + deltahue)], deltahue)
    ELSE leds

fill_rainbow_hue_first(pFirstLED, numToFill, initialhue, deltahue) ==
    fill_rainbow_loop(pFirstLED, 0, numToFill,
                      [hue |-> U8(initialhue + deltahue), val |-> 255, sat |-> 255],
                      deltahue)
\* lines 418-430
fill_rainbow(pFirstLED, numToFill, initialhue, deltahue) ==
    fill_rainbow_loop(pFirstLED, 0, numToFill,
                      [hue |-> initialhue, val |-> 255, sat |-> 255], deltahue)

(***************************************************************************)
(* State.  A run is one caller: either it holds one HSV pixel and hands it *)
(* to the single-pixel converters, or it holds a pixel array and hands it  *)
(* to one of the fill helpers.                                             *)
(***************************************************************************)
VARIABLES
    caller,       \* "pixel" or "array": what this caller holds
    hsv,          \* the caller's HSV pixel
    rgb_C,        \* what hsv2rgb_C wrote for hsv, with its locals
    rgb_avr,      \* what hsv2rgb_avr wrote for hsv
    rgb_rainbow,  \* what hsv2rgb_rainbow wrote for hsv
    leds0,        \* the caller's pixel array before the fill
    leds,         \* the caller's pixel array
    fill          \* the fill call made on leds, with its arguments

vars == <<caller, hsv, rgb_C, rgb_avr, rgb_rainbow, leds0, leds, fill>>

LedIndex == 0 .. (MaxLeds - 1)

Sentinel(k) == [i \in LedIndex |-> [r |-> 1 + i + k, g |-> 2 + k, b |-> 3]]

Pixel(color) == [r |-> color[1], g |-> color[2], b |-> color[3]]

Init ==
    /\ caller \in {"pixel", "array"}
    /\ IF caller = "pixel"
       THEN /\ hsv \in [hue : HueInputs, sat : SatInputs, val : ValInputs]
            /\ leds0 = Sentinel(0)
       ELSE /\ hsv = [hue |-> 0, sat |-> 0, val |-> 0]
            /\ leds0 \in {Sentinel(0), Sentinel(100)}
    /\ leds = leds0
    /\ rgb_C = NoCall
    /\ rgb_avr = NoCall
    /\ rgb_rainbow = NoCall
    /\ fill = NoCall

Call_hsv2rgb_C ==
    /\ caller = "pixel"
    /\ rgb_C = NoCall
    /\ rgb_C' = hsv2rgb_C(hsv)
    /\ UNCHANGED <<caller, hsv, rgb_avr, rgb_rainbow, leds0, leds, fill>>

Call_hsv2rgb_avr ==
    /\ caller = "pixel"
    /\ rgb_avr = NoCall
    /\ rgb_avr' = hsv2rgb_avr(hsv)
    /\ UNCHANGED <<caller, hsv, rgb_C, rgb_rainbow, leds0, leds, fill>>

Call_hsv2rgb_rainbow ==
    /\ caller = "pixel"
    /\ rgb_rainbow = NoCall
    /\ rgb_rainbow' = hsv2rgb_rainbow(hsv)
    /\ UNCHANGED <<caller, hsv, rgb_C, rgb_avr, leds0, leds, fill>>

Call_fill_solid ==
    /\ caller = "array"
    /\ fill = NoCall
    /\ \E numToFill \in NumToFillInputs, color \in ColorInputs :
          /\ leds' = fill_solid(leds, numToFill, Pixel(color))
          /\ fill' = [called |-> TRUE, fn |-> "fill_solid",
                      numToFill |-> numToFill, color |-> Pixel(color)]
    /\ UNCHANGED <<caller, hsv, rgb_C, rgb_avr, rgb_rainbow, leds0>>

Call_fill_rainbow ==
    /\ caller = "array"
    /\ fill = NoCall
    /\ \E numToFill \in NumToFillInputs, initialhue \in FillHueInputs,
          deltahue \in FillHueInputs :
          /\ leds' = fill_rainbow(leds, numToFill, initialhue, deltahue)
          /\ fill' = [called |-> TRUE, fn |-> "fill_rainbow",
                      numToFill |-> numToFill, initialhue |-> initialhue,
                      deltahue |-> deltahue]
    /\ UNCHANGED <<caller, hsv, rgb_C, rgb_avr, rgb_rainbow, leds0>>

Next ==
    \/ Call_hsv2rgb_C
    \/ Call_hsv2rgb_avr
    \/ Call_hsv2rgb_rainbow
    \/ Call_fill_solid
    \/ Call_fill_rainbow

Spec == Init /\ [][Next]_vars

(***************************************************************************)
(* Properties.                                                             *)
(***************************************************************************)
RGB(r, g, b) == [r |-> r, g |-> g, b |-> b]

Black == RGB(0, 0, 0)

InByte(x) == x \in Byte

AllInByte(rgb) == InByte(rgb.r) /\ InByte(rgb.g) /\ InByte(rgb.b)

\* C1: for every (hue, sat, val), hsv2rgb_C and hsv2rgb_avr write the same
\* (r, g, b).
C1_PortableEqualsAvr ==
    (rgb_C.called /\ rgb_avr.called) => rgb_C.rgb = rgb_avr.rgb

\* C2 as claimed: with sat == 0 the spectrum converter yields r == g == b == val.
C2_GrayIsVal ==
    (rgb_C.called /\ hsv.sat = 0) => rgb_C.rgb = RGB(hsv.val, hsv.val, hsv.val)

GrayLevel(val) == IF val = 0 THEN 0 ELSE val - 1

\* C2 as amended: with sat == 0 the spectrum converter (either build) yields
\* r == g == b == val - 1 for val >= 1, and 0 for val == 0.
C2_GrayIsValMinusOne ==
    /\ (rgb_C.called /\ hsv.sat = 0) =>
          rgb_C.rgb = RGB(GrayLevel(hsv.val), GrayLevel(hsv.val), GrayLevel(hsv.val))
    /\ (rgb_avr.called /\ hsv.sat = 0) =>
          rgb_avr.rgb = RGB(GrayLevel(hsv.val), GrayLevel(hsv.val), GrayLevel(hsv.val))

C2_Witness ==
    /\ rgb_C.called
    /\ hsv = [hue |-> 100, sat |-> 0, val |-> 255]
    /\ rgb_C.rgb = RGB(254, 254, 254)

\* C3: with val == 0 the spectrum converter (either build) and the rainbow
\* converter yield (0,0,0), whatever hue and sat are.
C3_ZeroValIsBlack ==
    /\ (rgb_C.called /\ hsv.val = 0) => rgb_C.rgb = Black
    /\ (rgb_avr.called /\ hsv.val = 0) => rgb_avr.rgb = Black
    /\ (rgb_rainbow.called /\ hsv.val = 0) => rgb_rainbow.rgb = Black

C3_Witness ==
    /\ rgb_C.called
    /\ rgb_rainbow.called
    /\ hsv = [hue |-> 100, sat |-> 0, val |-> 0]
    /\ rgb_rainbow.locals.wide.sum = RGB(254, 254, 254)
    /\ rgb_C.rgb = Black
    /\ rgb_rainbow.rgb = Black

FullSatVal == hsv.sat = 255 /\ hsv.val = 255

\* C4 as claimed: with sat == 255 and val == 255 the brightness floor is 0 for
\* every hue, and hue 0, 85, 170 yield (255,0,0), (0,255,0), (0,0,255).
C4_PrimariesAtThirds ==
    (rgb_C.called /\ FullSatVal) =>
        /\ rgb_C.locals.brightness_floor = 0
        /\ hsv.hue = 0 => rgb_C.rgb = RGB(255, 0, 0)
        /\ hsv.hue = 85 => rgb_C.rgb = RGB(0, 255, 0)
        /\ hsv.hue = 170 => rgb_C.rgb = RGB(0, 0, 255)

\* C4 as amended: with sat == 255 and val == 255 the brightness floor of
\* hsv2rgb_C is 0 for every hue; the single-channel colours are at the section
\* starts, at level 251: hue 0 yields (251,0,0), hue 64 (0,251,0), hue 128
\* (0,0,251); hue 85 yields (0,167,83) and hue 170 yields (167,0,83).
C4_PrimariesAtSectionStarts ==
    (rgb_C.called /\ FullSatVal) =>
        /\ rgb_C.locals.brightness_floor = 0
        /\ hsv.hue = 0 => rgb_C.rgb = RGB(251, 0, 0)
        /\ hsv.hue = 64 => rgb_C.rgb = RGB(0, 251, 0)
        /\ hsv.hue = 128 => rgb_C.rgb = RGB(0, 0, 251)
        /\ hsv.hue = 85 => rgb_C.rgb = RGB(0, 167, 83)
        /\ hsv.hue = 170 => rgb_C.rgb = RGB(167, 0, 83)

C4_Witness ==
    /\ rgb_C.called
    /\ hsv = [hue |-> 64, sat |-> 255, val |-> 255]
    /\ rgb_C.locals.brightness_floor = 0
    /\ rgb_C.rgb = RGB(0, 251, 0)

\* C5: after fill_rainbow(leds, numToFill, initialhue, deltahue) element i below
\* numToFill is what hsv2rgb_rainbow writes for hue (initialhue + i * deltahue)
\* mod 256, sat 255, val 255; the elements from numToFill on are unchanged.
C5_FillRainbow ==
    (fill.called /\ fill.fn = "fill_rainbow") =>
        \A i \in LedIndex :
            leds[i] = IF i < fill.numToFill
                      THEN hsv2rgb_rainbow(
                               [hue |-> (fill.initialhue + i * fill.deltahue) % 256,
                                sat |-> 255, val |-> 255]).rgb
                      ELSE leds0[i]

C5_Witness ==
    /\ fill.called
    /\ fill.fn = "fill_rainbow"
    /\ fill.numToFill = 3
    /\ fill.initialhue = 218
    /\ fill.deltahue = 64
    /\ leds[0] = RGB(153, 0, 102)
    /\ leds[1] = RGB(185, 69, 0)
    /\ leds[2] = RGB(33, 239, 0)
    /\ leds[3] = leds0[3]
    /\ leds[3] = RGB(4, 2, 3)

\* C6: fill_solid(leds, numToFill, color) sets exactly the elements below
\* numToFill to color and leaves the others unchanged; with numToFill <= 0 the
\* array is unchanged.
C6_FillSolid ==
    (fill.called /\ fill.fn = "fill_solid") =>
        /\ \A i \in LedIndex :
              leds[i] = IF i < fill.numToFill THEN fill.color ELSE leds0[i]
        /\ fill.numToFill <= 0 => leds = leds0

C6_Witness ==
    /\ fill.called
    /\ fill.fn = "fill_solid"
    /\ fill.numToFill = 5
    /\ fill.color = RGB(10, 20, 30)
    /\ \A i \in 0 .. 4 : leds[i] = RGB(10, 20, 30)
    /\ leds[5] = leds0[5]
    /\ leds[5] # RGB(10, 20, 30)

InFloorToVal(x) == rgb_C.locals.brightness_floor <= x /\ x <= hsv.val

\* C7: in hsv2rgb_C no 8-bit intermediate wraps: brightness_floor +
\* color_amplitude == val, both floor-added ramps stay <= val, and every output
\* channel lies in brightness_floor .. val.
C7_NoWrapInSpectrum ==
    rgb_C.called =>
        LET w == rgb_C.locals.wide IN
        /\ InByte(w.brightness_floor) /\ InByte(w.color_amplitude)
        /\ InByte(w.rampdown)
        /\ InByte(w.rampup_amp_adj) /\ InByte(w.rampdown_amp_adj)
        /\ InByte(w.rampup_adj_with_floor) /\ InByte(w.rampdown_adj_with_floor)
        /\ rgb_C.locals.brightness_floor + rgb_C.locals.color_amplitude = hsv.val
        /\ w.rampup_adj_with_floor <= hsv.val
        /\ w.rampdown_adj_with_floor <= hsv.val
        /\ InFloorToVal(rgb_C.rgb.r)
        /\ InFloorToVal(rgb_C.rgb.g)
        /\ InFloorToVal(rgb_C.rgb.b)

C7_Witness ==
    /\ rgb_C.called
    /\ hsv = [hue |-> 0, sat |-> 36, val |-> 255]
    /\ rgb_C.locals.brightness_floor = 218
    /\ rgb_C.locals.color_amplitude = 37
    /\ rgb_C.rgb = RGB(254, 218, 218)

\* C8: for every hue byte 0..255 the section index hue / 64 of hsv2rgb_C is one
\* of 0, 1, 2.
C8_ThreeSections ==
    rgb_C.called => rgb_C.locals.section \in {0, 1, 2}

\* C9: in hsv2rgb_rainbow no 8-bit operation wraps: every per-section channel
\* formula stays in 0..255, and so does each channel after the brightness floor
\* is added to it.
C9_NoWrapInRainbow ==
    rgb_rainbow.called =>
        LET w == rgb_rainbow.locals.wide IN
        /\ InByte(w.val) /\ InByte(w.offset8) /\ InByte(w.third)
        /\ AllInByte(w.section_rgb)
        /\ AllInByte(w.scaled)
        /\ InByte(w.desat) /\ InByte(w.brightness_floor)
        /\ AllInByte(w.sum)
        /\ AllInByte(w.final)

C9_Witness ==
    /\ rgb_rainbow.called
    /\ hsv = [hue |-> 159, sat |-> 255, val |-> 255]
    /\ rgb_rainbow.locals.third = 82
    /\ rgb_rainbow.locals.wide.section_rgb = RGB(0, 7, 249)
    /\ rgb_rainbow.rgb = RGB(0, 7, 248)

\* C10: hsv2rgb_rainbow yields (0,0,0) exactly when the squared value
\* scale8(val, val) is 0, which is exactly when val <= 15.
C10_BlackIffValAtMost15 ==
    rgb_rainbow.called =>
        /\ (rgb_rainbow.rgb = Black) <=> (rgb_rainbow.locals.val = 0)
        /\ (rgb_rainbow.locals.val = 0) <=> (hsv.val <= 15)

C10_Witness ==
    /\ rgb_rainbow.called
    /\ hsv = [hue |-> 0, sat |-> 255, val |-> 16]
    /\ rgb_rainbow.locals.val = 1
    /\ rgb_rainbow.rgb = RGB(1, 0, 0)
=============================================================================
